---- MODULE Spec2Model ----
(***************************************************************************)
(* Model of the BMT assignment optimizer (src/app.py): the POST /optimize  *)
(* handler and UpdatedBMTOptimizer.optimize_assignments with the helpers   *)
(* it calls.  One request is followed from the handler's entry to its HTTP *)
(* answer.                                                                 *)
(*                                                                         *)
(* Conventions.  Scores are floating point in the source; every score of   *)
(* the model is the source's score times 100, and a weight is held in      *)
(* hundredths (Continuity_Weight 0.30 is 30), so all arithmetic is exact   *)
(* integer arithmetic.  A DataFrame is the sequence of its rows, a row a    *)
(* function from the frame's column names to values.  Nurse_ID and         *)
(* Patient_ID are unique within a request (spec section 3): the id of the  *)
(* i-th nurse is NurseId(i), the id of the j-th patient is j.              *)
(***************************************************************************)
EXTENDS Integers, Sequences, FiniteSets, TLC

(* ------------------------------ bounds ------------------------------- *)
MaxNurses == 2
MaxPatients == 3
MaxServed == 1

(* ------------------------- program constants ------------------------- *)
UnitCap == 20
IVCap == 2
IdealCount == 3
ExcessPenalty == 500
DefaultAcuity == 5
AcuityCap == 10
DefaultMaxPatients == 4
HighAcuity == 8
MinSafeSkill == 2
InitialBestScore == -99900
WorkloadPenaltyPerAcuity == 30

(* ------------------------- string operations ------------------------- *)
\* str.upper() on the strings that occur in requests
Upper(s) ==
    CASE s = "y" -> "Y"
      [] s = "n" -> "N"
      [] s = "iv" -> "IV"
      [] s = "oral" -> "ORAL"
      [] s = "none" -> "NONE"
      [] s = "Positive" -> "POSITIVE"
      [] s = "positive" -> "POSITIVE"
      [] s = "Negative" -> "NEGATIVE"
      [] s = "Unknown" -> "UNKNOWN"
      [] OTHER -> s

\* str.lower() on the strings that occur in requests
Lower(s) ==
    CASE s = "Multiple" -> "multiple"
      [] s = "Single" -> "single"
      [] s = "Peripheral" -> "peripheral"
      [] s = "PICC" -> "picc"
      [] s = "IV" -> "iv"
      [] s = "Vasopressors" -> "vasopressors"
      [] s = "ANTIARRHYTHMICS, heparin" -> "antiarrhythmics, heparin"
      [] OTHER -> s

\* the Python test `kw in s` on lower-cased medication strings
Contains(s, kw) ==
    \/ s = kw
    \/ kw = "antiarrhythmics" /\ s = "antiarrhythmics, heparin"

\* ord(c) for the pod letters
Ord(c) ==
    CASE c = "A" -> 65
      [] c = "B" -> 66
      [] c = "C" -> 67
      [] OTHER -> 68

Min(a, b) == IF a <= b THEN a ELSE b
Abs(a) == IF a < 0 THEN -a ELSE a

\* Series.get(col, default): a row is a function from the columns of its frame
Get(row, col, default) == IF col \in DOMAIN row THEN row[col] ELSE default

\* a row as the frame with columns cols holds it
Restrict(row, cols) == [c \in cols |-> row[c]]

\* a row with the value of column col set (DataFrame.at[idx, col] = v)
SetCol(row, col, v) == [c \in DOMAIN row \cup {col} |-> IF c = col THEN v ELSE row[c]]

(* ------------------------------ requests ----------------------------- *)
NurseId(i) == <<"N1", "N2", "N3", "N4", "N5">>[i]

NurseCols == {"Nurse_ID", "Name", "Skill_Level", "Chemo_IV_Cert", "Max_Patients",
              "Pod_Pref", "Pregnancy_Status"}

PatientCols == {"Patient_ID", "Initials", "Base_Acuity", "New_Admit", "Chemo_Type",
                "Chemo_Frequency", "Central_Line", "IV_Medications", "CMV_Status",
                "Pod", "Last_Nurse", "Vesicant"}

NurseKinds == <<
    [Skill_Level |-> 3, Chemo_IV_Cert |-> "Y", Max_Patients |-> 4,
     Pod_Pref |-> "A", Pregnancy_Status |-> "N"],
    [Skill_Level |-> 1, Chemo_IV_Cert |-> "y", Max_Patients |-> 2,
     Pod_Pref |-> "B", Pregnancy_Status |-> "N"],
    [Skill_Level |-> 2, Chemo_IV_Cert |-> "N", Max_Patients |-> 1,
     Pod_Pref |-> "C", Pregnancy_Status |-> "y"],
    [Skill_Level |-> 2, Chemo_IV_Cert |-> "Y", Max_Patients |-> 0,
     Pod_Pref |-> "B", Pregnancy_Status |-> "Y"],
    [Skill_Level |-> 2, Chemo_IV_Cert |-> "Y", Max_Patients |-> 3,
     Pod_Pref |-> "", Pregnancy_Status |-> "N"] >>

PatientKinds == <<
    [Base_Acuity |-> 7, New_Admit |-> "N", Chemo_Type |-> "IV",
     Chemo_Frequency |-> "Single", Central_Line |-> "peripheral",
     IV_Medications |-> "chemo", CMV_Status |-> "Negative", Pod |-> "A",
     Last_Nurse |-> "N1", Vesicant |-> "N"],
    [Base_Acuity |-> 6, New_Admit |-> "Y", Chemo_Type |-> "iv",
     Chemo_Frequency |-> "Multiple", Central_Line |-> "PICC",
     IV_Medications |-> "", CMV_Status |-> "Positive", Pod |-> "A",
     Last_Nurse |-> "", Vesicant |-> "Y"],
    [Base_Acuity |-> 3, New_Admit |-> "y", Chemo_Type |-> "none",
     Chemo_Frequency |-> "Single", Central_Line |-> "none",
     IV_Medications |-> "", CMV_Status |-> "Negative", Pod |-> "B",
     Last_Nurse |-> "N2", Vesicant |-> "N"],
    [Base_Acuity |-> 5, New_Admit |-> "N", Chemo_Type |-> "oral",
     Chemo_Frequency |-> "multiple", Central_Line |-> "Peripheral",
     IV_Medications |-> "Vasopressors", CMV_Status |-> "positive", Pod |-> "C",
     Last_Nurse |-> "N2", Vesicant |-> "N"] >>

\* a nurse whose Max_Patients reaches or exceeds the unit: nothing in
\* validate_input bounds Max_Patients
FloatNurse(max_patients) ==
    [Skill_Level |-> 2, Chemo_IV_Cert |-> "N", Max_Patients |-> max_patients,
     Pod_Pref |-> "B", Pregnancy_Status |-> "N"]

NurseRow(i, kind) ==
    [Nurse_ID |-> NurseId(i), Name |-> NurseId(i),
     Skill_Level |-> kind.Skill_Level, Chemo_IV_Cert |-> kind.Chemo_IV_Cert,
     Max_Patients |-> kind.Max_Patients, Pod_Pref |-> kind.Pod_Pref,
     Pregnancy_Status |-> kind.Pregnancy_Status]

\* Acuity is the legacy column: it carries the base acuity when the caller
\* sends it in place of Base_Acuity
PatientRow(j, kind) ==
    [Patient_ID |-> j, Initials |-> j,
     Base_Acuity |-> kind.Base_Acuity, Acuity |-> kind.Base_Acuity,
     New_Admit |-> kind.New_Admit, Chemo_Type |-> kind.Chemo_Type,
     Chemo_Frequency |-> kind.Chemo_Frequency, Central_Line |-> kind.Central_Line,
     IV_Medications |-> kind.IV_Medications, CMV_Status |-> kind.CMV_Status,
     Pod |-> kind.Pod, Last_Nurse |-> kind.Last_Nurse, Vesicant |-> kind.Vesicant]

\* pd.DataFrame(rows) with the columns cols
Frame(cols, rows) == [i \in 1..Len(rows) |-> Restrict(rows[i], cols)]

\* DataFrame.columns: every row of a frame has the frame's columns; the
\* columns of an empty frame are not read by the program
Columns(df) == IF Len(df) = 0 THEN {} ELSE DOMAIN df[1]

\* the non-decreasing index sequences of length n over 1..k: one request for
\* every multiset of kinds
Picks(n, k) ==
    {s \in [1..n -> 1..k] : \A a \in 1..n : \A b \in 1..n : a < b => s[a] <= s[b]}

Rosters(lo, hi) ==
    UNION {{[i \in 1..n |-> NurseRow(i, NurseKinds[s[i]])] : s \in Picks(n, Len(NurseKinds))}
           : n \in lo..hi}

Censuses(lo, hi) ==
    UNION {{[j \in 1..n |-> PatientRow(j, PatientKinds[s[j]])] : s \in Picks(n, Len(PatientKinds))}
           : n \in lo..hi}

\* a patient at the bottom of the acuity scale
LowAcuityPatient ==
    [Base_Acuity |-> 1, New_Admit |-> "N", Chemo_Type |-> "none",
     Chemo_Frequency |-> "Single", Central_Line |-> "none",
     IV_Medications |-> "", CMV_Status |-> "Negative", Pod |-> "A",
     Last_Nurse |-> "", Vesicant |-> "N"]

\* the censuses of lo..hi patients over the given kinds
CensusesOf(kinds, lo, hi) ==
    UNION {{[j \in 1..n |-> PatientRow(j, kinds[s[j]])] : s \in Picks(n, Len(kinds))}
           : n \in lo..hi}

\* the column sets a caller may send: all columns; the legacy Acuity column;
\* and requests that lack required columns
ColumnVariants ==
    { [n |-> NurseCols, p |-> (PatientCols \ {"Base_Acuity"}) \cup {"Acuity"}],
      [n |-> NurseCols, p |-> PatientCols \ {"Base_Acuity"}],
      [n |-> NurseCols, p |-> PatientCols \ {"Chemo_Type"}],
      [n |-> NurseCols \ {"Chemo_IV_Cert"}, p |-> PatientCols],
      [n |-> NurseCols \ {"Name", "Skill_Level"}, p |-> PatientCols \ {"Initials"}] }

\* one nurse and one patient, the patient over every value of the fields the
\* preprocessing reads, with the acuity in Base_Acuity or in the legacy Acuity
PreprocessRequests ==
    {[nurses |-> Frame(NurseCols, <<NurseRow(1, NurseKinds[1])>>),
      patients |-> Frame(cols, <<PatientRow(1,
          [Base_Acuity |-> b, New_Admit |-> na, Chemo_Type |-> ct, Chemo_Frequency |-> cf,
           Central_Line |-> cl, IV_Medications |-> med, CMV_Status |-> "Negative",
           Pod |-> "A", Last_Nurse |-> "", Vesicant |-> ves])>>)]
        : cols \in {PatientCols, (PatientCols \ {"Base_Acuity"}) \cup {"Acuity"}},
          b \in 1..AcuityCap, na \in {"Y", "y", "N"}, ct \in {"IV", "iv", "oral", "none"},
          cf \in {"Single", "Multiple", "multiple"},
          cl \in {"peripheral", "Peripheral", "PICC", "none"},
          med \in {"", "chemo", "Vasopressors", "ANTIARRHYTHMICS, heparin"},
          ves \in {"Y", "N"}}

DefaultConfig ==
    [Continuity_Weight |-> 30, Skill_Weight |-> 40, Geography_Weight |-> 20,
     Workload_Balance_Weight |-> 10]

\* weight configurations, in hundredths: the default, and two that tell the
\* three weights apart
ScoreConfigs ==
    {DefaultConfig,
     [Continuity_Weight |-> 0, Skill_Weight |-> 100, Geography_Weight |-> 50,
      Workload_Balance_Weight |-> 10],
     [Continuity_Weight |-> 70, Skill_Weight |-> 10, Geography_Weight |-> 0,
      Workload_Balance_Weight |-> 10]}

\* the configurations that differ from the default in Continuity_Weight alone
ContinuityWeights == {0, 30, 100}
ContinuityConfigs ==
    {[DefaultConfig EXCEPT !["Continuity_Weight"] = w] : w \in ContinuityWeights}

\* the default configuration, and one whose Skill_Weight makes the penalty
\* of a poor skill-acuity match large (150.00)
FallbackConfigs == {DefaultConfig, [DefaultConfig EXCEPT !["Skill_Weight"] = 15000]}

\* the requests the fallback is followed on: every roster with every census,
\* low-acuity patients included
FallbackRequests ==
    {[nurses |-> Frame(NurseCols, r), patients |-> Frame(PatientCols, c)]
        : r \in Rosters(1, MaxNurses),
          c \in CensusesOf(PatientKinds \o <<LowAcuityPatient>>, 1, MaxPatients)}

\* the nurse rows and the preprocessed patient rows calculate_assignment_score
\* is called on: every value of the fields it reads, a field holding the
\* empty string, and a frame without the Pod_Pref, Pod or Last_Nurse column
ScoreNurses ==
    {[Nurse_ID |-> id, Name |-> "Nurse", Skill_Level |-> sk, Chemo_IV_Cert |-> "Y",
      Max_Patients |-> 4, Pod_Pref |-> pod, Pregnancy_Status |-> "N"]
        : id \in {"N1", ""}, sk \in 1..3, pod \in {"A", "B", "C", ""}}
    \cup
    {[Nurse_ID |-> id, Name |-> "Nurse", Skill_Level |-> sk, Chemo_IV_Cert |-> "Y",
      Max_Patients |-> 4, Pregnancy_Status |-> "N"]
        : id \in {"N1", ""}, sk \in 1..3}

ScorePatientBase ==
    {[Patient_ID |-> 1, Initials |-> 1, Base_Acuity |-> ac, Acuity |-> ac,
      New_Admit |-> na, Chemo_Type |-> "none", Chemo_Frequency |-> "Single",
      Central_Line |-> "none", IV_Medications |-> "", CMV_Status |-> "Negative",
      Vesicant |-> ves]
        : ac \in 1..AcuityCap, na \in {"Y", "N"}, ves \in {"Y", "N"}}

ScorePatients ==
    {[c \in DOMAIN b \cup DOMAIN extra |-> IF c \in DOMAIN extra THEN extra[c] ELSE b[c]]
        : b \in ScorePatientBase,
          extra \in {[Pod |-> pod, Last_Nurse |-> ln]
                        : pod \in {"A", "B", "C", ""}, ln \in {"N1", "N2", ""}}
                   \cup {[Pod |-> pod] : pod \in {"A", "B", "C", ""}}
                   \cup {[Last_Nurse |-> ln] : ln \in {"N1", "N2", ""}}}

\* the requests: every roster with every census, all columns present; the
\* column variants on small rosters and censuses; a full unit
Requests ==
    {[nurses |-> Frame(NurseCols, r), patients |-> Frame(PatientCols, c)]
        : r \in Rosters(0, MaxNurses), c \in Censuses(0, MaxPatients)}
    \cup
    {[nurses |-> Frame(v.n, r), patients |-> Frame(v.p, c)]
        : v \in ColumnVariants, r \in Rosters(1, 1), c \in Censuses(1, 2)}
    \cup
    {[nurses |-> Frame(NurseCols, <<NurseRow(1, FloatNurse(mx))>>),
      patients |-> Frame(PatientCols, [j \in 1..n |-> PatientRow(j, PatientKinds[3])])]
        : mx \in {UnitCap, UnitCap + 1}, n \in {UnitCap, UnitCap + 1}}

(* --------------------------- preprocessing --------------------------- *)
calculate_final_acuity_uncapped(base_acuity, new_admit, chemo_frequency) ==
    LET a0 == base_acuity
        a1 == IF Upper(new_admit) = "Y" THEN a0 + 1 ELSE a0
    IN  IF Lower(chemo_frequency) = "multiple" THEN a1 + 1 ELSE a1

calculate_final_acuity(base_acuity, new_admit, chemo_frequency) ==
    LET a0 == base_acuity
        a1 == IF Upper(new_admit) = "Y" THEN a0 + 1 ELSE a0
        a2 == IF Lower(chemo_frequency) = "multiple" THEN a1 + 1 ELSE a1
    IN  Min(a2, AcuityCap)

determine_vesicant_status(central_line, iv_medications, chemo_type) ==
    IF Lower(central_line) # "peripheral"
    THEN FALSE
    ELSE LET iv_meds == Lower(iv_medications)
         IN  \/ Contains(iv_meds, "antiarrhythmics")
             \/ Contains(iv_meds, "vasopressors")
             \/ Upper(chemo_type) = "IV"

\* the body of the loop of preprocess_patient_data for one row
preprocess_row(patient) ==
    LET base_acuity == Get(patient, "Base_Acuity", Get(patient, "Acuity", DefaultAcuity))
        new_admit == Get(patient, "New_Admit", "N")
        chemo_freq == Get(patient, "Chemo_Frequency", "Single")
        final_acuity == calculate_final_acuity(base_acuity, new_admit, chemo_freq)
        central_line == Get(patient, "Central_Line", "none")
        iv_medications == Get(patient, "IV_Medications", "")
        chemo_type == Get(patient, "Chemo_Type", "none")
        is_vesicant == determine_vesicant_status(central_line, iv_medications, chemo_type)
    IN  SetCol(SetCol(patient, "Acuity", final_acuity),
               "Vesicant", IF is_vesicant THEN "Y" ELSE "N")

\* DataFrame.copy(): the object it returns.  Objects are named: "arg" is the
\* frame the caller passed, "copy" the frame allocated by copy()
DataFrameCopy_alias(obj) == obj
DataFrameCopy(obj) == "copy"

\* preprocess_patient_data on the heap h of frames: the heap afterwards and
\* the object returned
preprocess_patient_data(h, patients_df) ==
    LET processed_patients == DataFrameCopy(patients_df)
        rows == [j \in 1..Len(h[patients_df]) |-> preprocess_row(h[patients_df][j])]
    IN  [heap |-> [h EXCEPT ![processed_patients] = rows], ret |-> processed_patients]

(* -------------------------- constraint oracle ------------------------ *)
\* the list of violations of the pair, in the order the source appends them
check_hard_constraints_no_cmv(nurse, patient) ==
    LET iv == IF /\ Upper(Get(patient, "Chemo_Type", "")) = "IV"
                 /\ Upper(Get(nurse, "Chemo_IV_Cert", "")) # "Y"
              THEN <<"IV chemo requires certification">> ELSE <<>>
        ves == IF /\ Upper(Get(patient, "Vesicant", "")) = "Y"
                  /\ Get(nurse, "Skill_Level", 1) < MinSafeSkill
               THEN <<"Vesicant medications need experienced nurse (skill 2+)">> ELSE <<>>
        acu == IF /\ Get(patient, "Acuity", 0) >= HighAcuity
                  /\ Get(nurse, "Skill_Level", 1) < MinSafeSkill
               THEN <<"High acuity (8+) needs experienced nurse">> ELSE <<>>
    IN  iv \o ves \o acu

check_hard_constraints(nurse, patient) ==
    LET iv == IF /\ Upper(Get(patient, "Chemo_Type", "")) = "IV"
                 /\ Upper(Get(nurse, "Chemo_IV_Cert", "")) # "Y"
              THEN <<"IV chemo requires certification">> ELSE <<>>
        ves == IF /\ Upper(Get(patient, "Vesicant", "")) = "Y"
                  /\ Get(nurse, "Skill_Level", 1) < MinSafeSkill
               THEN <<"Vesicant medications need experienced nurse (skill 2+)">> ELSE <<>>
        acu == IF /\ Get(patient, "Acuity", 0) >= HighAcuity
                  /\ Get(nurse, "Skill_Level", 1) < MinSafeSkill
               THEN <<"High acuity (8+) needs experienced nurse">> ELSE <<>>
        cmv_status == Upper(Get(patient, "CMV_Status", "Unknown"))
        pregnancy_status == Upper(Get(nurse, "Pregnancy_Status", "N"))
        cmv == IF cmv_status = "POSITIVE" /\ pregnancy_status = "Y"
               THEN <<"CMV+ patient cannot be assigned to pregnant nurse">> ELSE <<>>
    IN  iv \o ves \o acu \o cmv

(* ----------------------------- score --------------------------------- *)
\* line 108 takes the first character of both pods when they differ: an
\* empty pod raises IndexError
score_raises(nurse, patient) ==
    /\ Get(nurse, "Pod_Pref", "") # Get(patient, "Pod", "")
    /\ \/ Get(nurse, "Pod_Pref", "A") = ""
       \/ Get(patient, "Pod", "A") = ""

\* 100 times the score of the source, for a pair on which it does not raise
calculate_assignment_score(nurse, patient, config) ==
    LET Wc == Get(config, "Continuity_Weight", 30)
        Wg == Get(config, "Geography_Weight", 20)
        Ws == Get(config, "Skill_Weight", 40)
        continuity == IF Get(nurse, "Nurse_ID", "") = Get(patient, "Last_Nurse", "")
                      THEN 10 * Wc ELSE 0
        geography ==
            IF Get(nurse, "Pod_Pref", "") = Get(patient, "Pod", "") THEN 8 * Wg
            ELSE IF Abs(Ord(Get(nurse, "Pod_Pref", "A")) - Ord(Get(patient, "Pod", "A"))) = 1
                 THEN 4 * Wg ELSE 0
        skill == Get(nurse, "Skill_Level", 1)
        acuity == Get(patient, "Acuity", 1)
        fit == IF skill = 3 /\ acuity >= 8 THEN 12 * Ws
               ELSE IF skill = 3 /\ 5 <= acuity /\ acuity <= 7 THEN 10 * Ws
               ELSE IF skill = 2 /\ 4 <= acuity /\ acuity <= 8 THEN 10 * Ws
               ELSE IF skill = 1 /\ acuity <= 5 THEN 8 * Ws
               ELSE - (Abs(skill * 3 - acuity) * Ws)
        vesicant == IF Upper(Get(patient, "Vesicant", "")) = "Y" /\ skill = 3
                    THEN 5 * Ws ELSE 0
        admit == IF Upper(Get(patient, "New_Admit", "")) = "Y" /\ skill >= 2
                 THEN 3 * Ws ELSE 0
    IN  100 + continuity + geography + fit + vesicant + admit

(* ---------------------------- validation ----------------------------- *)
required_nurse_cols == <<"Nurse_ID", "Name", "Skill_Level", "Chemo_IV_Cert", "Max_Patients">>
required_patient_cols == <<"Patient_ID", "Initials", "Base_Acuity", "Chemo_Type">>

\* col.replace('Base_', '')
StripBase(col) == IF col = "Base_Acuity" THEN "Acuity" ELSE col

\* the columns of seq that the frame lacks, in order; for a patient column the
\* name without its Base_ prefix is accepted too (strip)
RECURSIVE SelectCols(_, _, _)
SelectCols(seq, cols, strip) ==
    IF seq = <<>> THEN <<>>
    ELSE LET c == Head(seq)
             missing == c \notin cols /\ (IF strip THEN StripBase(c) \notin cols ELSE TRUE)
         IN  (IF missing THEN <<c>> ELSE <<>>) \o SelectCols(Tail(seq), cols, strip)

\* validate_input raises KeyError at lines 159-160 when a frame lacks the
\* column the IV balance reads
validate_raises(nurses_df, patients_df) ==
    \/ "Chemo_Type" \notin Columns(patients_df)
    \/ "Chemo_IV_Cert" \notin Columns(nurses_df)

\* the error list of validate_input, when it does not raise
validate_input(nurses_df, patients_df) ==
    LET nurse_missing == SelectCols(required_nurse_cols, Columns(nurses_df), FALSE)
        patient_missing == SelectCols(required_patient_cols, Columns(patients_df), TRUE)
        e1 == [k \in 1..Len(nurse_missing) |-> <<"Missing nurse column", nurse_missing[k]>>]
        e2 == [k \in 1..Len(patient_missing) |-> <<"Missing patient column", patient_missing[k]>>]
        e3 == IF Len(patients_df) > UnitCap
              THEN << <<"Exceeds unit capacity", Len(patients_df)>> >> ELSE <<>>
        iv_patients == Cardinality({j \in 1..Len(patients_df) :
                                      Upper(patients_df[j]["Chemo_Type"]) = "IV"})
        iv_nurses == Cardinality({i \in 1..Len(nurses_df) :
                                    Upper(nurses_df[i]["Chemo_IV_Cert"]) = "Y"})
        e4 == IF iv_patients > iv_nurses * 2
              THEN << <<"Insufficient IV certified nurses", iv_patients>> >> ELSE <<>>
    IN  e1 \o e2 \o e3 \o e4

(* ------------------------------ solver ------------------------------- *)
RECURSIVE SumSeq(_)
SumSeq(q) == IF q = <<>> THEN 0 ELSE Head(q) + SumSeq(Tail(q))

\* a solution x is the set of the pairs <<i, j>> with x[i, j] = 1
Count(x, i) == Cardinality({p \in x : p[1] = i})

IsIV(patient) == Upper(Get(patient, "Chemo_Type", "")) = "IV"

\* lines 186-195: the 0/1 matrices in which every patient has exactly one nurse
PatientCoverage_skips_last(m, n) ==
    {{<<f[j], j>> : j \in 1..(n - 1)} \cup {<<i, n>> : i \in S}
        : f \in [1..(n - 1) -> 1..m], S \in SUBSET (1..m)}

PatientCoverage(m, n) ==
    {{<<f[j], j>> : j \in 1..n} : f \in [1..n -> 1..m]}

\* lines 197-200
NurseCapacity(nurses_df, x) ==
    \A i \in 1..Len(nurses_df) :
        Count(x, i) <= Get(nurses_df[i], "Max_Patients", DefaultMaxPatients)

\* lines 202-211
Blocked(nurses_df, patients_df) ==
    {p \in (1..Len(nurses_df)) \X (1..Len(patients_df)) :
        check_hard_constraints(nurses_df[p[1]], patients_df[p[2]]) # <<>>}

\* lines 213-219
IVLimit(nurses_df, patients_df, x) ==
    \A i \in 1..Len(nurses_df) :
        Upper(Get(nurses_df[i], "Chemo_IV_Cert", "")) = "Y"
            => Cardinality({p \in x : p[1] = i /\ IsIV(patients_df[p[2]])}) <= IVCap

\* lines 221-223
UnitCapacity(x) == Cardinality(x) <= UnitCap

\* lines 236-241: excess_i is an integer variable of range 0..ExcessMax with
\* excess_i >= count_i - IdealCount, so a nurse can hold at most
\* IdealCount + ExcessMax patients
ExcessMax == 4
ExcessFits(nurses_df, x) ==
    \A i \in 1..Len(nurses_df) : Count(x, i) - IdealCount <= ExcessMax

FeasibleSolutions(nurses_df, patients_df) ==
    {x \in PatientCoverage(Len(nurses_df), Len(patients_df)) :
        /\ NurseCapacity(nurses_df, x)
        /\ x \cap Blocked(nurses_df, patients_df) = {}
        /\ IVLimit(nurses_df, patients_df, x)
        /\ UnitCapacity(x)
        /\ ExcessFits(nurses_df, x)}

\* lines 225-244: the best value of the objective at x (the solver sets each
\* excess_i to its least admissible value), times 100
Objective(nurses_df, patients_df, config, x) ==
    SumSeq([i \in 1..Len(nurses_df) |->
        SumSeq([j \in 1..Len(patients_df) |->
            IF <<i, j>> \in x
            THEN calculate_assignment_score(nurses_df[i], patients_df[j], config)
            ELSE 0])
        - ExcessPenalty * (IF Count(x, i) > IdealCount THEN Count(x, i) - IdealCount ELSE 0)])

\* the solutions of F at which the objective is least
Optima_minimizes(nurses_df, patients_df, config, F) ==
    LET values == {<<s, Objective(nurses_df, patients_df, config, s)>> : s \in F}
    IN  {v[1] : v \in {v \in values : \A w \in values : v[2] <= w[2]}}

\* the solutions of F at which the objective is greatest
Optima(nurses_df, patients_df, config, F) ==
    LET values == {<<s, Objective(nurses_df, patients_df, config, s)>> : s \in F}
    IN  {v[1] : v \in {v \in values : \A w \in values : v[2] >= w[2]}}

\* lines 228-233 compute the score of every pair, blocked or not
build_raises(nurses_df, patients_df) ==
    \E i \in 1..Len(nurses_df) : \E j \in 1..Len(patients_df) :
        score_raises(nurses_df[i], patients_df[j])

(* ---------------------------- extraction ----------------------------- *)
Indices(n) == [j \in 1..n |-> j]

\* lines 273-288
patient_data(nurse, patient) ==
    [patient_id |-> Get(patient, "Patient_ID", ""),
     base_acuity |-> Get(patient, "Base_Acuity", Get(patient, "Acuity", 1)),
     final_acuity |-> Get(patient, "Acuity", 1),
     chemo |-> Get(patient, "Chemo_Type", "none"),
     vesicant |-> Get(patient, "Vesicant", "N"),
     cmv_status |-> Get(patient, "CMV_Status", "Unknown"),
     new_admit |-> Get(patient, "New_Admit", "N"),
     continuity |-> IF Get(nurse, "Nurse_ID", "") = Get(patient, "Last_Nurse", "")
                    THEN "Y" ELSE "N"]

\* lines 262-315 for nurse i: the entry appended to assignments
nurse_entry(x, nurses_df, patients_df, i) ==
    LET nurse == nurses_df[i]
        Mine(j) == <<i, j>> \in x
        js == SelectSeq(Indices(Len(patients_df)), Mine)
        nurse_patients == [k \in 1..Len(js) |-> patient_data(nurse, patients_df[js[k]])]
        patient_count == Len(nurse_patients)
    IN  [nurse_id |-> Get(nurse, "Nurse_ID", ""),
         nurse_name |-> Get(nurse, "Name", ""),
         skill_level |-> Get(nurse, "Skill_Level", 1),
         pregnancy_status |-> Get(nurse, "Pregnancy_Status", "N"),
         patients |-> nurse_patients,
         patient_count |-> patient_count,
         total_acuity |-> SumSeq([k \in 1..Len(js) |-> Get(patients_df[js[k]], "Acuity", 1)]),
         iv_chemo_count |-> Cardinality({k \in 1..Len(js) : IsIV(patients_df[js[k]])}),
         vesicant_count |-> Cardinality({k \in 1..Len(js) :
                               Upper(Get(patients_df[js[k]], "Vesicant", "")) = "Y"}),
         ratio_status |-> IF patient_count <= 3 THEN "ideal" ELSE "maximum",
         continuity_count |-> Cardinality({k \in 1..Len(js) : nurse_patients[k].continuity = "Y"}),
         new_admit_count |-> Cardinality({k \in 1..Len(js) : nurse_patients[k].new_admit = "Y"})]

\* the entries of the nurses i..Len(nurses_df) that have a patient
RECURSIVE entries_from(_, _, _, _)
entries_from(x, nurses_df, patients_df, i) ==
    IF i > Len(nurses_df) THEN <<>>
    ELSE (IF Count(x, i) > 0 THEN <<nurse_entry(x, nurses_df, patients_df, i)>> ELSE <<>>)
         \o entries_from(x, nurses_df, patients_df, i + 1)

extract_solution(x, nurses_df, patients_df, config, blocked_assignments) ==
    LET assignments == entries_from(x, nurses_df, patients_df, 1)
        patient_counts == [a \in 1..Len(assignments) |-> assignments[a].patient_count]
        stats == IF assignments # <<>>
                 THEN [total_patients |-> Len(patients_df),
                       total_nurses_used |-> Len(assignments),
                       unit_capacity_used |-> <<SumSeq(patient_counts), UnitCap>>,
                       blocked_assignments |-> blocked_assignments,
                       objective_value |-> Objective(nurses_df, patients_df, config, x)]
                 ELSE [error |-> "No assignments generated"]
    IN  [success |-> TRUE, assignments |-> assignments, stats |-> stats]

(* ----------------------------- fallback ------------------------------ *)
\* line 352: the row indices in order of descending Acuity, ties in input order
RECURSIVE SortDescending(_, _)
SortDescending(patients_df, S) ==
    IF S = {} THEN <<>>
    ELSE LET j == CHOOSE a \in S : \A b \in S :
                     \/ patients_df[a]["Acuity"] > patients_df[b]["Acuity"]
                     \/ patients_df[a]["Acuity"] = patients_df[b]["Acuity"] /\ a <= b
         IN  <<j>> \o SortDescending(patients_df, S \ {j})

\* lines 355-356
InitialWorkloads(nurses_df) == [i \in 1..Len(nurses_df) |-> [patients |-> <<>>, acuity |-> 0]]

\* lines 365-366: the nurse is not skipped for capacity
has_capacity_off_by_one(nurse, workload) == ~(Len(workload.patients) > nurse["Max_Patients"])
has_capacity(nurse, workload) == ~(Len(workload.patients) >= nurse["Max_Patients"])

\* lines 363-383: the loop over the nurses from nurse i on, with the best nurse
\* (0 is None) and the best score so far
RECURSIVE select_nurse(_, _, _, _, _, _, _)
select_nurse(nurses_df, patient, config, nurse_workloads, i, best_nurse, best_score) ==
    IF i > Len(nurses_df) THEN best_nurse
    ELSE LET nurse == nurses_df[i]
             total_score == calculate_assignment_score(nurse, patient, config)
                            - nurse_workloads[i].acuity * WorkloadPenaltyPerAcuity
             skip == \/ ~has_capacity(nurse, nurse_workloads[i])
                     \/ check_hard_constraints(nurse, patient) # <<>>
         IN  IF ~skip /\ total_score > best_score
             THEN select_nurse(nurses_df, patient, config, nurse_workloads, i + 1, i, total_score)
             ELSE select_nurse(nurses_df, patient, config, nurse_workloads, i + 1,
                               best_nurse, best_score)

\* lines 385-393
assign_to(nurse_workloads, best_nurse, patient) ==
    [nurse_workloads EXCEPT ![best_nurse] =
        [patients |-> Append(@.patients,
                        [patient_id |-> patient["Patient_ID"],
                         initials |-> patient["Initials"],
                         final_acuity |-> patient["Acuity"],
                         chemo |-> Get(patient, "Chemo_Type", "none"),
                         vesicant |-> Get(patient, "Vesicant", "N")]),
         acuity |-> @.acuity + patient["Acuity"]]]

\* lines 396-406, from nurse i on
RECURSIVE fallback_entries(_, _, _)
fallback_entries(nurses_df, nurse_workloads, i) ==
    IF i > Len(nurses_df) THEN <<>>
    ELSE (IF nurse_workloads[i].patients # <<>>
          THEN <<[nurse_id |-> nurses_df[i]["Nurse_ID"],
                  nurse_name |-> nurses_df[i]["Name"],
                  patients |-> nurse_workloads[i].patients,
                  total_acuity |-> nurse_workloads[i].acuity,
                  patient_count |-> Len(nurse_workloads[i].patients)]>>
          ELSE <<>>)
         \o fallback_entries(nurses_df, nurse_workloads, i + 1)

\* a result that reports no patient as unassigned
fallback_result_none_unassigned(nurses_df, nurse_workloads, unassigned_patients) ==
    [success |-> TRUE,
     fallback |-> TRUE,
     assignments |-> fallback_entries(nurses_df, nurse_workloads, 1),
     unassigned_patients |-> 0]

\* lines 408-419
fallback_result(nurses_df, nurse_workloads, unassigned_patients) ==
    [success |-> TRUE,
     fallback |-> TRUE,
     assignments |-> fallback_entries(nurses_df, nurse_workloads, 1),
     unassigned_patients |-> Cardinality(unassigned_patients)]

(* --------------------------- state machine --------------------------- *)
VARIABLES
    pc,                  \* the next step of the request
    data,                \* request.json: the nurses and the patients the caller sent
    ORTOOLS_AVAILABLE,   \* line 7-11: whether the import of OR-Tools succeeded
    nurses_df,           \* the nurses frame
    heap,                \* the patient frames, by object: "arg" and "copy"
    patients_df,         \* the object the name patients_df of optimize_assignments is bound to
    config,
    status,              \* the solver's status
    x,                   \* the solver's solution
    blocked_assignments,
    remaining,           \* fallback: the sorted patients not yet visited by the loop
    nurse_workloads,     \* fallback: per nurse, the patients taken and their acuity sum
    unassigned_patients, \* fallback: the row indices still in unassigned_patients
    result,              \* the dict optimize_assignments returns
    http_status,         \* the status of the HTTP answer, 0 before it is sent
    stages,              \* history: the pipeline stages run so far, in order
    served               \* history: the requests answered before this one

vars == <<pc, served, data, ORTOOLS_AVAILABLE, nurses_df, heap, patients_df, config, status, x,
          blocked_assignments, remaining, nurse_workloads, unassigned_patients,
          result, http_status, stages>>

NoResult == [none |-> TRUE]

\* a request arrives with its configuration (lines 489-508)
InitFrom(requests, ortools, configs) ==
    /\ data \in requests
    /\ ORTOOLS_AVAILABLE \in ortools
    /\ config \in configs
    /\ served = <<>>
    /\ nurses_df = <<>>
    /\ heap = [arg |-> <<>>, copy |-> <<>>]
    /\ pc = "optimize"
    /\ patients_df = "arg"
    /\ status = ""
    /\ x = {}
    /\ blocked_assignments = 0
    /\ remaining = <<>>
    /\ nurse_workloads = <<>>
    /\ unassigned_patients = {}
    /\ result = NoResult
    /\ http_status = 0
    /\ stages = <<>>

\* a request without a config key: the handler takes the default
InitWith(requests, ortools) == InitFrom(requests, ortools, {DefaultConfig})

\* optimize_assignments returns r: the handler goes on to answer with it
Return(r) ==
    /\ result' = r
    /\ pc' = "respond"

\* lines 489-519: the handler up to its call of optimize_assignments
Optimize ==
    /\ pc = "optimize"
    /\ IF ~ORTOOLS_AVAILABLE
       THEN /\ result' = [error |-> "OR-Tools not available"]
            /\ http_status' = 500
            /\ pc' = "done"
            /\ UNCHANGED <<nurses_df, heap>>
       ELSE IF Len(data.nurses) = 0 \/ Len(data.patients) = 0
       THEN /\ result' = [error |-> "Missing nurses or patients data"]
            /\ http_status' = 400
            /\ pc' = "done"
            /\ UNCHANGED <<nurses_df, heap>>
       ELSE /\ nurses_df' = data.nurses
            /\ heap' = [heap EXCEPT !["arg"] = data.patients]
            /\ pc' = "preprocess"
            /\ UNCHANGED <<result, http_status>>
    /\ UNCHANGED <<served, data, ORTOOLS_AVAILABLE, patients_df, config, status, x,
                   blocked_assignments, remaining, nurse_workloads, unassigned_patients,
                   stages>>

\* line 173
Preprocess ==
    /\ pc = "preprocess"
    /\ LET r == preprocess_patient_data(heap, patients_df)
       IN  /\ heap' = r.heap
           /\ patients_df' = r.ret
    /\ stages' = Append(stages, "Preprocess")
    /\ pc' = "validate"
    /\ UNCHANGED <<served, data, ORTOOLS_AVAILABLE, nurses_df, config, status, x, blocked_assignments,
                   remaining, nurse_workloads, unassigned_patients, result, http_status>>

\* lines 176-178, and line 256 when validate_input raises
Validate ==
    /\ pc = "validate"
    /\ stages' = Append(stages, "Validate")
    /\ IF validate_raises(nurses_df, heap[patients_df])
       THEN Return([error |-> "Optimization failed"])
       ELSE LET errors == validate_input(nurses_df, heap[patients_df])
            IN  IF errors # <<>>
                THEN Return([error |-> "Validation failed", details |-> errors])
                ELSE /\ pc' = "build"
                     /\ UNCHANGED result
    /\ UNCHANGED <<served, data, ORTOOLS_AVAILABLE, nurses_df, heap, patients_df, config, status, x,
                   blocked_assignments, remaining, nurse_workloads, unassigned_patients,
                   http_status>>

\* lines 181-183: CreateSolver returns None when the backend is not in the build
CreateSolverFails ==
    /\ pc = "build"
    /\ Return([error |-> "Could not create optimization solver"])
    /\ UNCHANGED <<served, data, ORTOOLS_AVAILABLE, nurses_df, heap, patients_df, config, status, x,
                   blocked_assignments, remaining, nurse_workloads, unassigned_patients,
                   http_status, stages>>

\* lines 185-244, and line 256 when calculate_assignment_score raises
Build ==
    /\ pc = "build"
    /\ stages' = Append(stages, "Build")
    /\ IF build_raises(nurses_df, heap[patients_df])
       THEN /\ Return([error |-> "Optimization failed"])
            /\ UNCHANGED blocked_assignments
       ELSE /\ blocked_assignments' = Cardinality(Blocked(nurses_df, heap[patients_df]))
            /\ pc' = "solve"
            /\ UNCHANGED result
    /\ UNCHANGED <<served, data, ORTOOLS_AVAILABLE, nurses_df, heap, patients_df, config, status, x,
                   remaining, nurse_workloads, unassigned_patients, http_status>>

\* lines 247-253: the solver ends with status s and solution sol
Solved(s, sol) ==
    /\ status' = s
    /\ x' = sol
    /\ stages' = Append(stages, "Solve")
    /\ pc' = IF s \in {"OPTIMAL", "FEASIBLE"} THEN "extract" ELSE "fallback"
    /\ UNCHANGED <<served, data, ORTOOLS_AVAILABLE, nurses_df, heap, patients_df, config,
                   blocked_assignments, remaining, nurse_workloads, unassigned_patients,
                   result, http_status>>

\* the solver proves a solution optimal
SolveOptimal ==
    /\ pc = "solve"
    /\ \E F \in {FeasibleSolutions(nurses_df, heap[patients_df])} :
       \E sol \in Optima(nurses_df, heap[patients_df], config, F) :
           Solved("OPTIMAL", sol)

\* the time limit ends the search with an incumbent: any feasible solution
SolveFeasible ==
    /\ pc = "solve"
    /\ \E sol \in FeasibleSolutions(nurses_df, heap[patients_df]) : Solved("FEASIBLE", sol)

\* the program has no solution
SolveInfeasible ==
    /\ pc = "solve"
    /\ FeasibleSolutions(nurses_df, heap[patients_df]) = {}
    /\ Solved("INFEASIBLE", {})

\* the time limit ends the search without an incumbent
SolveTimeout ==
    /\ pc = "solve"
    /\ Solved("NOT_SOLVED", {})

\* line 251
Extract ==
    /\ pc = "extract"
    /\ stages' = stages \o <<"Extract", "Assemble">>
    /\ Return(extract_solution(x, nurses_df, heap[patients_df], config, blocked_assignments))
    /\ UNCHANGED <<served, data, ORTOOLS_AVAILABLE, nurses_df, heap, patients_df, config, status, x,
                   blocked_assignments, remaining, nurse_workloads, unassigned_patients,
                   http_status>>

\* lines 351-356
FallbackBegin ==
    /\ pc = "fallback"
    /\ remaining' = SortDescending(heap[patients_df], 1..Len(heap[patients_df]))
    /\ unassigned_patients' = 1..Len(heap[patients_df])
    /\ nurse_workloads' = InitialWorkloads(nurses_df)
    /\ stages' = Append(stages, "Fallback")
    /\ pc' = "fallback_loop"
    /\ UNCHANGED <<served, data, ORTOOLS_AVAILABLE, nurses_df, heap, patients_df, config, status, x,
                   blocked_assignments, result, http_status>>

\* lines 359-394: one iteration of the loop over the sorted patients
FallbackStep ==
    /\ pc = "fallback_loop"
    /\ remaining # <<>>
    /\ LET idx == Head(remaining)
           patient == heap[patients_df][idx]
           best_nurse == select_nurse(nurses_df, patient, config, nurse_workloads,
                                      1, 0, InitialBestScore)
       IN  IF best_nurse # 0
           THEN /\ nurse_workloads' = assign_to(nurse_workloads, best_nurse, patient)
                /\ unassigned_patients' = unassigned_patients \ {idx}
           ELSE UNCHANGED <<nurse_workloads, unassigned_patients>>
    /\ remaining' = Tail(remaining)
    /\ UNCHANGED <<pc, served, data, ORTOOLS_AVAILABLE, nurses_df, heap, patients_df, config, status, x,
                   blocked_assignments, result, http_status, stages>>

\* lines 396-419
FallbackFinish ==
    /\ pc = "fallback_loop"
    /\ remaining = <<>>
    /\ stages' = Append(stages, "Assemble")
    /\ Return(fallback_result(nurses_df, nurse_workloads, unassigned_patients))
    /\ UNCHANGED <<served, data, ORTOOLS_AVAILABLE, nurses_df, heap, patients_df, config, status, x,
                   blocked_assignments, remaining, nurse_workloads, unassigned_patients,
                   http_status>>

\* line 521: jsonify(result) is answered with status 200
Respond ==
    /\ pc = "respond"
    /\ http_status' = 200
    /\ pc' = "done"
    /\ UNCHANGED <<served, data, ORTOOLS_AVAILABLE, nurses_df, heap, patients_df, config, status, x,
                   blocked_assignments, remaining, nurse_workloads, unassigned_patients,
                   result, stages>>

Next ==
    \/ Optimize
    \/ Preprocess
    \/ Validate
    \/ CreateSolverFails
    \/ Build
    \/ SolveOptimal
    \/ SolveFeasible
    \/ SolveInfeasible
    \/ SolveTimeout
    \/ Extract
    \/ FallbackBegin
    \/ FallbackStep
    \/ FallbackFinish
    \/ Respond

Init == InitWith(Requests, BOOLEAN)

Spec == Init /\ [][Next]_vars

\* the preprocessing alone, over every value of the fields it reads
InitPreprocess == InitWith(PreprocessRequests, {TRUE})
NextPreprocess == Optimize \/ Preprocess
SpecPreprocess == InitPreprocess /\ [][NextPreprocess]_vars

\* calculate_assignment_score alone, called on one nurse row, one preprocessed
\* patient row and one configuration
InitScore ==
    /\ data = [nurses |-> <<>>, patients |-> <<>>]
    /\ ORTOOLS_AVAILABLE = TRUE
    /\ nurses_df \in {<<n>> : n \in ScoreNurses}
    /\ heap \in {[arg |-> <<>>, copy |-> <<p>>] : p \in ScorePatients}
    /\ pc = "score"
    /\ patients_df = "copy"
    /\ config \in ScoreConfigs
    /\ served = <<>>
    /\ status = ""
    /\ x = {}
    /\ blocked_assignments = 0
    /\ remaining = <<>>
    /\ nurse_workloads = <<>>
    /\ unassigned_patients = {}
    /\ result = NoResult
    /\ http_status = 0
    /\ stages = <<>>

\* lines 97-136: the call returns the score, or raises at line 108
Score ==
    /\ pc = "score"
    /\ LET nurse == nurses_df[1]
           patient == heap[patients_df][1]
       IN  result' = IF score_raises(nurse, patient)
                     THEN [raised |-> "IndexError"]
                     ELSE [score |-> calculate_assignment_score(nurse, patient, config)]
    /\ pc' = "scored"
    /\ UNCHANGED <<served, data, ORTOOLS_AVAILABLE, nurses_df, heap, patients_df, config, status, x,
                   blocked_assignments, remaining, nurse_workloads, unassigned_patients,
                   http_status, stages>>

NextScore == Score
SpecScore == InitScore /\ [][NextScore]_vars

\* the number of assignments of sol whose nurse is the patient's last nurse
\* (the pairs line 102 gives the continuity bonus to)
ContinuityCount(sol) ==
    Cardinality({a \in sol :
        Get(data.nurses[a[1]], "Nurse_ID", "") = Get(data.patients[a[2]], "Last_Nurse", "")})

\* the same nurses and patients are sent again with a larger
\* Continuity_Weight: the handler starts over (lines 489-508), nothing of the
\* request before survives but what this history keeps of it: its
\* configuration, the solver's status and the continuity of its solution
NextRequest ==
    /\ pc = "done"
    /\ Len(served) < MaxServed
    /\ served' = Append(served, [config |-> config, status |-> status,
                                 continuity |-> ContinuityCount(x)])
    /\ \E c \in ContinuityConfigs :
          /\ c["Continuity_Weight"] > config["Continuity_Weight"]
          /\ config' = c
    /\ nurses_df' = <<>>
    /\ heap' = [arg |-> <<>>, copy |-> <<>>]
    /\ pc' = "optimize"
    /\ patients_df' = "arg"
    /\ status' = ""
    /\ x' = {}
    /\ blocked_assignments' = 0
    /\ remaining' = <<>>
    /\ nurse_workloads' = <<>>
    /\ unassigned_patients' = {}
    /\ result' = NoResult
    /\ http_status' = 0
    /\ stages' = <<>>
    /\ UNCHANGED <<data, ORTOOLS_AVAILABLE>>

\* the requests whose assignment program is solved to optimality, sent again
\* with a larger Continuity_Weight
InitContinuity ==
    InitFrom({[nurses |-> Frame(NurseCols, r), patients |-> Frame(PatientCols, c)]
                 : r \in Rosters(1, MaxNurses), c \in Censuses(1, MaxPatients)},
             {TRUE}, ContinuityConfigs)

NextContinuity ==
    \/ Optimize
    \/ Preprocess
    \/ Validate
    \/ Build
    \/ SolveOptimal
    \/ Extract
    \/ Respond
    \/ NextRequest

SpecContinuity == InitContinuity /\ [][NextContinuity]_vars

\* the pipeline under configurations the caller chooses
InitFallback == InitFrom(FallbackRequests, {TRUE}, FallbackConfigs)
SpecFallback == InitFallback /\ [][Next]_vars

(* ------------------------------ claims ------------------------------- *)
\* the entries of result.assignments
Emitted == IF "assignments" \in DOMAIN result THEN result.assignments ELSE <<>>

\* the row index of the nurse with the given Nurse_ID
NurseIndex(id) == CHOOSE i \in 1..Len(nurses_df) : nurses_df[i]["Nurse_ID"] = id

\* the patient ids in the list of entry a, and the <<nurse, patient>> pairs emitted
ListedIds(a) == [k \in 1..Len(Emitted[a].patients) |-> Emitted[a].patients[k].patient_id]
EmittedPairs ==
    UNION {{<<NurseIndex(Emitted[a].nurse_id), ListedIds(a)[k]>> : k \in 1..Len(ListedIds(a))}
           : a \in 1..Len(Emitted)}

\* how often patient j is listed over all nurses
Occurrences(j) ==
    SumSeq([a \in 1..Len(Emitted) |-> Cardinality({k \in 1..Len(ListedIds(a)) : ListedIds(a)[k] = j})])

\* case-insensitive readings of the request's strings
SaysYes(s) == s \in {"Y", "y"}
SaysIV(s) == s \in {"IV", "iv", "Iv", "iV"}
SaysPositive(s) == s \in {"Positive", "positive", "POSITIVE"}
SaysMultiple(s) == s \in {"Multiple", "multiple", "MULTIPLE"}
SaysPeripheral(s) == s \in {"peripheral", "Peripheral", "PERIPHERAL"}
NamesVesicantDrug(s) == s \in {"Vasopressors", "vasopressors", "antiarrhythmics",
                               "ANTIARRHYTHMICS, heparin"}

\* the rules of the constraint table, on a nurse row and a preprocessed patient row
RuleIVCert(n, p) == SaysIV(p["Chemo_Type"]) /\ ~SaysYes(n["Chemo_IV_Cert"])
RuleVesicant(n, p) == SaysYes(p["Vesicant"]) /\ n["Skill_Level"] < 2
RuleHighAcuity(n, p) == p["Acuity"] >= 8 /\ n["Skill_Level"] < 2
RuleNewAdmit(n, p) == SaysYes(p["New_Admit"]) /\ n["Skill_Level"] < 2
RuleCMV(n, p) == SaysPositive(p["CMV_Status"]) /\ SaysYes(n["Pregnancy_Status"])

EnforcedRules(n, p) ==
    RuleIVCert(n, p) \/ RuleVesicant(n, p) \/ RuleHighAcuity(n, p) \/ RuleCMV(n, p)

C2_EveryResultCovers ==
    ("success" \in DOMAIN result /\ result.success)
        => \A j \in 1..Len(data.patients) : Occurrences(j) = 1

\* C2 as amended: a result with success = true that is not a fallback result
\* lists every input patient exactly once; a fallback result lists every
\* patient at most once and counts the patients it lists nowhere in
\* unassigned_patients.
C2_SolverResultCovers ==
    ("success" \in DOMAIN result /\ result.success)
        => IF "fallback" \in DOMAIN result
           THEN /\ \A j \in 1..Len(data.patients) : Occurrences(j) <= 1
                /\ result.unassigned_patients =
                       Cardinality({j \in 1..Len(data.patients) : Occurrences(j) = 0})
           ELSE \A j \in 1..Len(data.patients) : Occurrences(j) = 1

\* a solver result that spreads several patients over several nurses
C2_Witness ==
    /\ pc = "done"
    /\ status \in {"OPTIMAL", "FEASIBLE"}
    /\ Len(Emitted) >= 2
    /\ Len(data.patients) >= 3

\* C3: in every returned result each emitted nurse's patient_count is at most
\* that nurse's Max_Patients, and the patient counts sum to at most 20.
C3_Capacity ==
    /\ \A a \in 1..Len(Emitted) :
          /\ Emitted[a].patient_count = Len(Emitted[a].patients)
          /\ Emitted[a].patient_count <= nurses_df[NurseIndex(Emitted[a].nurse_id)]["Max_Patients"]
    /\ SumSeq([a \in 1..Len(Emitted) |-> Emitted[a].patient_count]) <= 20

\* a result that fills the unit and a nurse to the limit
C3_Witness ==
    /\ pc = "done"
    /\ SumSeq([a \in 1..Len(Emitted) |-> Emitted[a].patient_count]) = 20
    /\ \E a \in 1..Len(Emitted) :
          Emitted[a].patient_count = nurses_df[NurseIndex(Emitted[a].nurse_id)]["Max_Patients"]

\* the values the stages have run through
StagesRun == {stages[k] : k \in 1..Len(stages)}

\* the request reached optimize_assignments and the handler has answered
Answered == pc = "done" /\ stages # <<>>

ErrorIs(msg) == "error" \in DOMAIN result /\ result.error = msg

\* C4 as stated: in every returned result no nurse has more than 2 patients
\* with IV chemo and a nurse without IV certification has none.  The fallback
\* does not count IV patients.
C4_IVCap ==
    \A a \in 1..Len(Emitted) :
        LET ivs == Cardinality({k \in 1..Len(Emitted[a].patients) :
                                  SaysIV(Emitted[a].patients[k].chemo)})
        IN  /\ ivs <= 2
            /\ ~SaysYes(nurses_df[NurseIndex(Emitted[a].nurse_id)]["Chemo_IV_Cert"]) => ivs = 0

\* C5 as stated: when the Max_Patients of the nurses sum to less than the
\* number of patients, the result is 'Validation failed' with an
\* insufficient-total-capacity message and neither solver nor fallback ran.
\* validate_input has no such check.
C5_TotalCapacityRejected ==
    (/\ Answered
     /\ "Max_Patients" \in Columns(nurses_df)
     /\ SumSeq([i \in 1..Len(nurses_df) |-> nurses_df[i]["Max_Patients"]]) < Len(data.patients))
        => /\ ErrorIs("Validation failed")
           /\ \E k \in 1..Len(result.details) : result.details[k][1] = "Insufficient total capacity"
           /\ StagesRun \cap {"Solve", "Fallback"} = {}

\* the required columns the request lacks (the acuity may come as Base_Acuity
\* or as Acuity)
MissingRequired ==
    {c \in {"Nurse_ID", "Name", "Skill_Level", "Chemo_IV_Cert", "Max_Patients"} :
        c \notin Columns(data.nurses)}
    \cup {c \in {"Patient_ID", "Initials", "Chemo_Type"} : c \notin Columns(data.patients)}
    \cup (IF Columns(data.patients) \cap {"Base_Acuity", "Acuity"} = {}
          THEN {"Base_Acuity"} ELSE {})

\* C6 as stated: a request that lacks a required field ends in 'Validation
\* failed' with a message for every missing field, and the solver is not run.
C6_MissingFieldRejected ==
    (Answered /\ MissingRequired # {})
        => /\ ErrorIs("Validation failed")
           /\ \A c \in MissingRequired :
                 \E k \in 1..Len(result.details) : result.details[k][2] = c
           /\ "Solve" \notin StagesRun

\* C7 as stated: when the solver ends neither OPTIMAL nor FEASIBLE and the
\* fallback assigns no patient, the result is the error 'No feasible
\* solution' and not a success.
C7_EmptyFallbackIsError ==
    (/\ Answered
     /\ status \in {"INFEASIBLE", "NOT_SOLVED"}
     /\ \A i \in 1..Len(nurse_workloads) : nurse_workloads[i].patients = <<>>)
        => /\ ErrorIs("No feasible solution")
           /\ "success" \notin DOMAIN result

IsPrefix(p, q) == Len(p) <= Len(q) /\ \A k \in 1..Len(p) : p[k] = q[k]

\* C8 as stated: the stages run in the order Validate, Preprocess, Build,
\* Solve, Extract or Fallback, Assemble; nothing runs after a validation
\* failure; the request ends in one of ValidationError, Success,
\* FallbackSuccess, InternalError.  The code preprocesses before it validates.
C8_StageOrder ==
    /\ \/ IsPrefix(stages, <<"Validate", "Preprocess", "Build", "Solve", "Extract", "Assemble">>)
       \/ IsPrefix(stages, <<"Validate", "Preprocess", "Build", "Solve", "Fallback", "Assemble">>)
    /\ ErrorIs("Validation failed") => stages[Len(stages)] = "Validate"
    /\ Answered =>
          \/ "error" \in DOMAIN result
          \/ "success" \in DOMAIN result /\ result.success

\* C9 as stated: an exception in the pipeline or a solver that cannot be created
\* is answered with HTTP 500, a validation failure with HTTP 200 and its details.
\* optimize_assignments returns both as dicts, which the handler answers with 200.
C9_InternalFailureIs500 ==
    Answered =>
        /\ (ErrorIs("Optimization failed") \/ ErrorIs("Could not create optimization solver"))
              => http_status = 500
        /\ ErrorIs("Validation failed") => http_status = 200 /\ "details" \in DOMAIN result

\* C10: for a patient with base acuity in 1..10 the preprocessed Acuity is
\* min(10, base + [new_admit = Y] + [chemo_frequency = Multiple]), lies in
\* 1..10 and does not decrease when new_admit is set to Y; Vesicant is Y exactly
\* when the central line is peripheral and the chemo is IV or the medications
\* name antiarrhythmics or vasopressors, whatever Vesicant the caller sent; all
\* case-insensitively; the caller's frame is left as it was sent.
C10_Preprocessing ==
    stages # <<>> =>
        /\ heap["arg"] = data.patients
        /\ Len(heap[patients_df]) = Len(data.patients)
        /\ \A j \in 1..Len(data.patients) :
              LET raw == data.patients[j]
                  out == heap[patients_df][j]
                  base == Get(raw, "Base_Acuity", Get(raw, "Acuity", 0))
                  expected == base + (IF SaysYes(Get(raw, "New_Admit", "N")) THEN 1 ELSE 0)
                                   + (IF SaysMultiple(Get(raw, "Chemo_Frequency", "Single"))
                                      THEN 1 ELSE 0)
                  admitted == preprocess_row(SetCol(raw, "New_Admit", "Y"))
              IN  base \in 1..10 =>
                    /\ out["Acuity"] = (IF expected > 10 THEN 10 ELSE expected)
                    /\ out["Acuity"] \in 1..10
                    /\ admitted["Acuity"] >= out["Acuity"]
                    /\ out["Vesicant"] \in {"Y", "N"}
                    /\ out["Vesicant"] = "Y" <=>
                          /\ SaysPeripheral(Get(raw, "Central_Line", "none"))
                          /\ \/ SaysIV(Get(raw, "Chemo_Type", "none"))
                             \/ NamesVesicantDrug(Get(raw, "IV_Medications", ""))

\* a preprocessed patient whose acuity is capped and whose Vesicant the
\* preprocessing turned from the caller's N to Y
C10_Witness ==
    /\ stages # <<>>
    /\ \E j \in 1..Len(data.patients) :
          /\ Get(data.patients[j], "Base_Acuity", 0) = 9
          /\ SaysYes(data.patients[j]["New_Admit"])
          /\ SaysMultiple(data.patients[j]["Chemo_Frequency"])
          /\ heap[patients_df][j]["Acuity"] = 10
          /\ data.patients[j]["Vesicant"] = "N"
          /\ heap[patients_df][j]["Vesicant"] = "Y"

(* C11 *)
\* the pair the score was computed on
ScoredNurse == nurses_df[1]
ScoredPatient == heap[patients_df][1]

\* the pair passes check_hard_constraints
Admissible == check_hard_constraints(ScoredNurse, ScoredPatient) = <<>>

\* a field of a row as the reference reads it: missing counts as empty
Field(row, col) == IF col \in DOMAIN row THEN row[col] ELSE ""

\* the reference score of the pair, in hundredths
ReferenceScore ==
    LET Wc == config["Continuity_Weight"]
        Wg == config["Geography_Weight"]
        Ws == config["Skill_Weight"]
        nurse_id == Field(ScoredNurse, "Nurse_ID")
        last_nurse == Field(ScoredPatient, "Last_Nurse")
        pod_pref == Field(ScoredNurse, "Pod_Pref")
        pod == Field(ScoredPatient, "Pod")
        skill == ScoredNurse["Skill_Level"]
        acuity == ScoredPatient["Acuity"]
        continuity == IF nurse_id = last_nurse /\ nurse_id # "" THEN 10 * Wc ELSE 0
        geography == IF pod_pref = "" \/ pod = "" THEN 0
                     ELSE IF pod_pref = pod THEN 8 * Wg
                     ELSE IF Ord(pod_pref) - Ord(pod) \in {-1, 1} THEN 4 * Wg
                     ELSE 0
        fit == IF skill = 3 /\ acuity >= 8 THEN 12 * Ws
               ELSE IF skill = 3 /\ acuity \in 5..7 THEN 10 * Ws
               ELSE IF skill = 2 /\ acuity \in 4..8 THEN 10 * Ws
               ELSE IF skill = 1 /\ acuity <= 5 THEN 8 * Ws
               ELSE - (Abs(3 * skill - acuity) * Ws)
        vesicant == IF ScoredPatient["Vesicant"] = "Y" /\ skill = 3 THEN 5 * Ws ELSE 0
        admit == IF ScoredPatient["New_Admit"] = "Y" /\ skill >= 2 THEN 3 * Ws ELSE 0
    IN  100 + continuity + geography + fit + vesicant + admit

\* C11: on every admissible pair and every non-negative weight
\* configuration, calculate_assignment_score returns the reference score;
\* a missing or empty pod or last_nurse gives no bonus and no failure.
C11_ScoreIsReference ==
    (pc = "scored" /\ Admissible) => result = [score |-> ReferenceScore]

(* C12 *)
\* this request and the earlier request k were both solved to optimality
BothOptimal(k) ==
    /\ pc \in {"extract", "respond", "done"}
    /\ status = "OPTIMAL"
    /\ served[k].status = "OPTIMAL"

\* C12: nurses, patients and the other weights fixed, an optimal solution at
\* the larger Continuity_Weight has no fewer assignments to the patient's
\* last nurse than an optimal solution at the smaller one.
C12_ContinuityMonotone ==
    \A k \in 1..Len(served) :
        BothOptimal(k) =>
            LET w1 == served[k].config["Continuity_Weight"]
                w2 == config["Continuity_Weight"]
            IN  w1 < w2 => served[k].continuity <= ContinuityCount(x)

\* the larger weight has moved a patient to its last nurse
C12_Witness ==
    \E k \in 1..Len(served) :
        /\ BothOptimal(k)
        /\ served[k].config["Continuity_Weight"] < config["Continuity_Weight"]
        /\ 0 < served[k].continuity
        /\ served[k].continuity < ContinuityCount(x)

(* C13 *)
\* create_fallback_solution has returned its result
FallbackReturned == pc \in {"respond", "done"} /\ "Fallback" \in StagesRun

\* the sum of patient_count over the emitted nurses
EmittedCount == SumSeq([a \in 1..Len(Emitted) |-> Emitted[a].patient_count])

\* C13: in every result of create_fallback_solution the fallback flag is
\* true, each patient is in at most one nurse's list, and unassigned_patients
\* plus the sum of patient_count over the emitted nurses is the number of
\* input patients; when every nurse has Max_Patients = 0 the result has no
\* assignments and unassigned_patients is the number of patients.
C13_FallbackAccounting ==
    FallbackReturned =>
        /\ "fallback" \in DOMAIN result /\ result.fallback = TRUE
        /\ \A j \in 1..Len(data.patients) : Occurrences(j) <= 1
        /\ \A a \in 1..Len(Emitted) : \A k \in 1..Len(ListedIds(a)) :
               ListedIds(a)[k] \in 1..Len(data.patients)
        /\ result.unassigned_patients + EmittedCount = Len(data.patients)
        /\ (\A i \in 1..Len(data.nurses) : data.nurses[i]["Max_Patients"] = 0)
               => /\ result.assignments = <<>>
                  /\ result.unassigned_patients = Len(data.patients)

\* a fallback result with patients on two nurses and a patient left over
C13_Witness ==
    /\ FallbackReturned
    /\ Len(Emitted) >= 2
    /\ result.unassigned_patients >= 1

\* a fallback result for nurses who all have Max_Patients = 0
C13_ZeroCapacityReached ==
    /\ FallbackReturned
    /\ \A i \in 1..Len(data.nurses) : data.nurses[i]["Max_Patients"] = 0
    /\ Len(data.patients) >= 2

(* C14 *)
\* the patient the fallback loop handles next
Handled == heap[patients_df][Head(remaining)]

\* the nurses that are admissible for the handled patient and below
\* Max_Patients at this moment
Candidates ==
    {i \in 1..Len(nurses_df) :
        /\ Len(nurse_workloads[i].patients) < nurses_df[i]["Max_Patients"]
        /\ check_hard_constraints(nurses_df[i], Handled) = <<>>}

\* the sum of the final acuities already assigned to nurse i
AssignedAcuity(i) ==
    SumSeq([k \in 1..Len(nurse_workloads[i].patients) |->
               nurse_workloads[i].patients[k].final_acuity])

\* score(n, p) - 0.3 * (sum of final acuities already assigned to n), in hundredths
Preference(i) ==
    calculate_assignment_score(nurses_df[i], Handled, config) - 30 * AssignedAcuity(i)

\* the patients still to handle come in descending final acuity
DescendingAcuity ==
    \A a \in 1..Len(remaining) : \A b \in 1..Len(remaining) :
        a < b => heap[patients_df][remaining[a]]["Acuity"] >= heap[patients_df][remaining[b]]["Acuity"]

\* the step of the loop leaves the patient unassigned only when there is no
\* candidate, and otherwise gives it to a candidate of greatest preference
GreedyStep ==
    (pc = "fallback_loop" /\ remaining # <<>> /\ remaining' = Tail(remaining)) =>
        IF Candidates = {}
        THEN /\ Head(remaining) \in unassigned_patients'
             /\ nurse_workloads' = nurse_workloads
        ELSE /\ Head(remaining) \notin unassigned_patients'
             /\ \E i \in Candidates :
                   /\ \A o \in Candidates : Preference(i) >= Preference(o)
                   /\ Len(nurse_workloads'[i].patients) = Len(nurse_workloads[i].patients) + 1
                   /\ nurse_workloads'[i].patients[Len(nurse_workloads'[i].patients)].patient_id
                          = Handled["Patient_ID"]
                   /\ \A o \in 1..Len(nurses_df) :
                          o # i => nurse_workloads'[o] = nurse_workloads[o]

\* C14: create_fallback_solution handles the patients in order of descending
\* final acuity; it leaves a patient unassigned only if no nurse is both
\* admissible and below Max_Patients at that moment, and otherwise assigns it
\* to a nurse maximizing score(n, p) - 0.3 * (sum of final acuities already
\* assigned to n) among those nurses, whatever the magnitude or sign of the
\* scores.
C14_GreedyFallback ==
    /\ [](pc = "fallback_loop" => DescendingAcuity)
    /\ [][GreedyStep]_vars

====
